---------------------------- MODULE Spec2Model ----------------------------
(***************************************************************************)
(* A model of bipy.core.workflow (src/bipy/core/workflow.py): the          *)
(* requires / no_requirements decorators, Workflow._all_wf_methods,        *)
(* Workflow._get_workflow and the generator Workflow.__call__.             *)
(*                                                                         *)
(* A Workflow subclass is a set of wf_ methods.  Each method is a record   *)
(* of what its decorators hold (priority, requires(...) arguments) and of  *)
(* what its body does to self.state and self.failed.  The generator        *)
(* returned by __call__ is a process with a position pc; the consumer of   *)
(* the generator is a second process that resumes it or stops pulling.     *)
(***************************************************************************)
EXTENDS Integers, Sequences, FiniteSets, TLC

(***************************************************************************)
(* Bounds of the model.                                                    *)
(***************************************************************************)
MaxLen == 2      \* longest input stream handed to __call__
MaxItem == 1     \* items of a stream are drawn from 0..MaxItem

(* range(10) of the module docstring example *)
ExampleLen == 10

Items == 0..MaxItem
Streams == UNION {[1..n -> Items] : n \in 0..MaxLen}

Range(s) == {s[i] : i \in DOMAIN s}
Perms(S) == {s \in [1..Cardinality(S) -> S] : Range(s) = S}

(***************************************************************************)
(* Python values held in the options dict: None, an int or a str (a str    *)
(* is the sequence of its character codes, a = 1, b = 2, ...).             *)
(***************************************************************************)
NoneV == [t |-> "none", n |-> 0, s |-> <<>>]
IntV(n) == [t |-> "int", n |-> n, s |-> <<>>]
StrV(s) == [t |-> "str", n |-> 0, s |-> s]

(* the module level sentinels anything = Exists() and not_none = object() *)
anything == [t |-> "anything", elems |-> {}, s |-> <<>>]
not_none == [t |-> "not_none", elems |-> {}, s |-> <<>>]
(* the other shapes the values argument of requires may have *)
SetOf(S) == [t |-> "set", elems |-> S, s |-> <<>>]
ListOf(S) == [t |-> "list", elems |-> S, s |-> <<>>]
Scalar(v) == [t |-> "scalar", elems |-> {v}, s |-> <<>>]
Str(s) == [t |-> "str", elems |-> {}, s |-> s]

(* requires.__init__: the normalisation of the values argument *)
requires_init(values) ==
    IF values.t = "anything" THEN anything
    ELSE IF values.t = "not_none" THEN not_none
    ELSE IF values.t # "set"
         THEN IF values.t = "str" THEN values
              ELSE [t |-> "set", elems |-> values.elems, s |-> <<>>]
         ELSE values

(***************************************************************************)
(* The wf_ methods of the modelled subclasses.  NoPriority is a method     *)
(* that carries no priority attribute.                                     *)
(***************************************************************************)
NoPriority == [has |-> FALSE, p |-> 0]
priority(p) == [has |-> TRUE, p |-> p]

no_requirements(prio, body) ==
    [deco |-> "no_requirements", priority |-> prio, valid_state |-> FALSE,
     option |-> "None", values |-> anything, valid_data |-> "None",
     body |-> body]

requires(prio, valid_state, option, values, valid_data, body) ==
    [deco |-> "requires", priority |-> prio, valid_state |-> valid_state,
     option |-> option, values |-> requires_init(values),
     valid_data |-> valid_data, body |-> body]

Methods ==
    [ \* the three methods of the docstring's MyWorkflow
      wf_mul    |-> no_requirements(priority(100), "square"),
      wf_double |-> requires(priority(10), TRUE, "double", anything, "None",
                             "double"),
      wf_sub    |-> requires(NoPriority, TRUE, "sub_value",
                             ListOf({IntV(1), IntV(5), IntV(10)}), "None",
                             "sub"),
      \* a step that marks odd items as failed
      wf_check  |-> requires(priority(10), TRUE, "None", anything, "None",
                             "fail_odd"),
      \* failure-honouring steps
      wf_inc    |-> requires(NoPriority, TRUE, "None", anything, "None",
                             "inc"),
      wf_count  |-> requires(priority(7), TRUE, "None", anything, "None",
                             "inc"),
      wf_pos    |-> requires(NoPriority, TRUE, "None", anything, "nonzero",
                             "addtwo"),
      \* steps that ignore the failure flag
      wf_clear  |-> requires(priority(5), FALSE, "None", anything, "None",
                             "clear"),
      wf_audit  |-> requires(priority(5), FALSE, "None", anything, "nonzero",
                             "double"),
      wf_zero   |-> requires(priority(20), FALSE, "None", anything, "zero",
                             "addtwo"),
      wf_final  |-> no_requirements(NoPriority, "inc"),
      \* option matchers
      wf_nn     |-> requires(NoPriority, TRUE, "opt", not_none, "None",
                             "inc"),
      wf_mode   |-> requires(NoPriority, TRUE, "mode", Str(<<1, 2, 3>>),
                             "None", "addtwo") ]

(* the letters of each method name after the common prefix wf_ *)
Letters ==
    [ wf_mul    |-> <<13, 21, 12>>,
      wf_double |-> <<4, 15, 21, 2, 12, 5>>,
      wf_sub    |-> <<19, 21, 2>>,
      wf_check  |-> <<3, 8, 5, 3, 11>>,
      wf_inc    |-> <<9, 14, 3>>,
      wf_count  |-> <<3, 15, 21, 14, 20>>,
      wf_pos    |-> <<16, 15, 19>>,
      wf_clear  |-> <<3, 12, 5, 1, 18>>,
      wf_audit  |-> <<1, 21, 4, 9, 20>>,
      wf_zero   |-> <<26, 5, 18, 15>>,
      wf_final  |-> <<6, 9, 14, 1, 12>>,
      wf_nn     |-> <<14, 14>>,
      wf_mode   |-> <<13, 15, 4, 5>> ]


(***************************************************************************)
(* dir(self): the attribute names in ascending string order; the names     *)
(* compared are those of the class, whatever order they were declared in.  *)
(***************************************************************************)
RECURSIVE LexLess(_, _)
LexLess(a, b) ==
    IF a = <<>> THEN b # <<>>
    ELSE IF b = <<>> THEN FALSE
    ELSE IF Head(a) < Head(b) THEN TRUE
    ELSE IF Head(a) > Head(b) THEN FALSE
    ELSE LexLess(Tail(a), Tail(b))

RECURSIVE dir(_)
dir(names) ==
    IF names = {} THEN <<>>
    ELSE LET m == CHOOSE x \in names :
                     \A y \in names \ {x} : LexLess(Letters[x], Letters[y])
         IN  <<m>> \o dir(names \ {m})

(* key = lambda x: getattr(x, 'priority', default_priority) *)
default_priority == 0
key(name) ==
    IF Methods[name].priority.has THEN Methods[name].priority.p
    ELSE default_priority

(***************************************************************************)
(* sorted(methods, key=key, reverse=True): a stable sort, so methods of    *)
(* equal key keep the order they have in the list handed to it.            *)
(***************************************************************************)
RECURSIVE InsertUnstable(_, _)
InsertUnstable(x, s) ==
    IF s = <<>> THEN <<x>>
    ELSE IF key(Head(s)) > key(x)
         THEN <<Head(s)>> \o InsertUnstable(x, Tail(s))
         ELSE <<x>> \o s

RECURSIVE Insert(_, _)
Insert(x, s) ==
    IF s = <<>> THEN <<x>>
    ELSE IF key(Head(s)) >= key(x)
         THEN <<Head(s)>> \o Insert(x, Tail(s))
         ELSE <<x>> \o s

RECURSIVE sorted_ascending(_)
sorted_ascending(methods) ==
    IF methods = <<>> THEN <<>>
    ELSE LET n == Len(methods)
             rest == sorted_ascending(SubSeq(methods, 1, n - 1))
             lower == SelectSeq(rest, LAMBDA y : key(y) <= key(methods[n]))
             higher == SelectSeq(rest, LAMBDA y : key(y) > key(methods[n]))
         IN  lower \o <<methods[n]>> \o higher

RECURSIVE sorted(_)
sorted(methods) ==
    IF methods = <<>> THEN <<>>
    ELSE LET n == Len(methods)
         IN  Insert(methods[n], sorted(SubSeq(methods, 1, n - 1)))

(* Workflow._all_wf_methods of a class that declares the methods decl *)
all_wf_methods(declared) == sorted(dir(Range(declared)))

(***************************************************************************)
(* v in self.values, for the four shapes self.values can have.  The test   *)
(* on the not_none sentinel (a bare object()) and the test of a non-str    *)
(* in a str raise TypeError.                                               *)
(***************************************************************************)
IsSubstring(a, b) ==
    \E i \in 0..(Len(b) - Len(a)) : SubSeq(b, i + 1, i + Len(a)) = a

Contains(v, values) ==
    IF values.t = "anything" THEN "True"
    ELSE IF values.t = "not_none" THEN "TypeError"
    ELSE IF values.t = "str"
         THEN IF v.t # "str" THEN "TypeError"
              ELSE IF IsSubstring(v.s, values.s) THEN "True" ELSE "False"
    ELSE IF v \in values.elems THEN "True" ELSE "False"

(* the valid_data functions the modelled steps are given *)
valid_data(f, x) ==
    IF f = "nonzero" THEN x # 0
    ELSE IF f = "zero" THEN x = 0
    ELSE TRUE

(***************************************************************************)
(* The bodies f(dec_self) of the modelled steps: what each does to         *)
(* self.state and self.failed.                                             *)
(***************************************************************************)
Body(b, opts, st, fl) ==
    IF b = "square" THEN [state |-> st * st, failed |-> fl]
    ELSE IF b = "double" THEN [state |-> st + st, failed |-> fl]
    ELSE IF b = "sub" THEN [state |-> st - opts["sub_value"].n, failed |-> fl]
    ELSE IF b = "inc" THEN [state |-> st + 1, failed |-> fl]
    ELSE IF b = "addtwo" THEN [state |-> st + 2, failed |-> fl]
    ELSE IF b = "fail_odd" THEN [state |-> st, failed |-> fl \/ (st % 2 = 1)]
    ELSE IF b = "clear" THEN [state |-> st, failed |-> FALSE]
    ELSE [state |-> st, failed |-> fl]

(* the value a decorated method returns, with the fields it leaves *)
Ret(r, st, fl) == [ret |-> r, state |-> st, failed |-> fl]
Run(m, opts, st, fl) ==
    LET after == Body(m.body, opts, st, fl)
    IN  Ret("_executed", after.state, after.failed)

(* requires.do_short_circuit *)
do_short_circuit_negated(m, fl, sc) == m.valid_state /\ (fl /\ ~sc)
do_short_circuit(m, fl, sc) == m.valid_state /\ (fl /\ sc)

(* requires.__call__.decorated *)
requires_decorated_get(m, opts, st, fl, sc) ==
    IF do_short_circuit(m, fl, sc) THEN Ret("None", st, fl)
    ELSE IF m.valid_data # "None" /\ ~valid_data(m.valid_data, st)
         THEN Ret("None", st, fl)
    ELSE IF m.option = "None" THEN Run(m, opts, st, fl)
    ELSE LET v == IF m.option \in DOMAIN opts THEN opts[m.option] ELSE NoneV
         IN  IF m.values.t = "not_none" /\ v # NoneV
             THEN Run(m, opts, st, fl)
             ELSE LET c == Contains(v, m.values)
                  IN  IF c = "TypeError" THEN Ret("TypeError", st, fl)
                      ELSE IF c = "True" THEN Run(m, opts, st, fl)
                      ELSE Ret("None", st, fl)

requires_decorated_data_unchecked(m, opts, st, fl, sc) ==
    IF do_short_circuit(m, fl, sc) THEN Ret("None", st, fl)
    ELSE IF m.option = "None" THEN Run(m, opts, st, fl)
    ELSE IF m.option \in DOMAIN opts
         THEN LET v == opts[m.option]
              IN  IF m.values.t = "not_none" /\ v # NoneV
                  THEN Run(m, opts, st, fl)
                  ELSE LET c == Contains(v, m.values)
                       IN  IF c = "TypeError" THEN Ret("TypeError", st, fl)
                           ELSE IF c = "True" THEN Run(m, opts, st, fl)
                           ELSE Ret("None", st, fl)
    ELSE Ret("None", st, fl)

requires_decorated(m, opts, st, fl, sc) ==
    IF do_short_circuit(m, fl, sc) THEN Ret("None", st, fl)
    ELSE IF m.valid_data # "None" /\ ~valid_data(m.valid_data, st)
         THEN Ret("None", st, fl)
    ELSE IF m.option = "None" THEN Run(m, opts, st, fl)
    ELSE IF m.option \in DOMAIN opts
         THEN LET v == opts[m.option]
              IN  IF m.values.t = "not_none" /\ v # NoneV
                  THEN Run(m, opts, st, fl)
                  ELSE LET c == Contains(v, m.values)
                       IN  IF c = "TypeError" THEN Ret("TypeError", st, fl)
                           ELSE IF c = "True" THEN Run(m, opts, st, fl)
                           ELSE Ret("None", st, fl)
    ELSE Ret("None", st, fl)

(* no_requirements.decorated *)
no_requirements_decorated_valid_state(m, opts, st, fl) ==
    IF fl THEN Ret("None", st, fl) ELSE Run(m, opts, st, fl)
no_requirements_decorated(m, opts, st, fl) == Run(m, opts, st, fl)

(* a call self.wf_x() of the decorated method *)
decorated(name, opts, st, fl, sc) ==
    IF Methods[name].deco = "no_requirements"
    THEN no_requirements_decorated(Methods[name], opts, st, fl)
    ELSE requires_decorated(Methods[name], opts, st, fl, sc)

(* _debug_trace_wrapper.wrapped: what a call does to self.debug_trace *)
wrapped_silent(dbg, trace, name) == trace
wrapped(dbg, trace, name) == IF dbg THEN Append(trace, name) ELSE trace

(* _debug_trace_wrapper.wrapped: "return f()", the value the caller gets *)
wrapped_return_dropped(dbg, ret) ==
    IF dbg /\ ret = "_executed" THEN "None" ELSE ret
wrapped_return(dbg, ret) == ret

(* a call self.wf_x() on an engine built with debug = dbg *)
method_call(dbg, name, opts, st, fl, sc) ==
    LET r == decorated(name, opts, st, fl, sc)
    IN  Ret(wrapped_return(dbg, r.ret), r.state, r.failed)

(***************************************************************************)
(* The subclasses and option dicts the engine is constructed with.         *)
(***************************************************************************)
NoOptions == <<>>
ExampleOptions ==
    { [double |-> NoneV, sub_value |-> IntV(5)],
      [sub_value |-> IntV(10)],
      NoOptions }
ExampleClass == {"wf_mul", "wf_double", "wf_sub"}

Setups ==
    {[class |-> ExampleClass, options |-> o] :
        o \in ExampleOptions \cup {[sub_value |-> IntV(7)]}}
    \cup
    {[class |-> c, options |-> NoOptions] :
        c \in { {"wf_check", "wf_audit", "wf_final", "wf_inc"},
                {"wf_check", "wf_count", "wf_clear", "wf_inc"},
                {"wf_zero", "wf_check", "wf_audit", "wf_pos"} }}
    \cup
    {[class |-> {"wf_nn", "wf_mode"}, options |-> o] :
        o \in { NoOptions,
                [opt |-> NoneV],
                [opt |-> IntV(5), mode |-> StrV(<<1, 2, 3>>)],
                [mode |-> StrV(<<1, 2>>)],
                [opt |-> IntV(5), mode |-> IntV(5)] }}

VARIABLES
    declared,       \* the wf_ methods of the class, in declaration order
    options,        \* self.options
    debug,          \* self.debug
    short_circuit,  \* self.short_circuit
    state,          \* self.state
    failed,         \* self.failed
    debug_trace,    \* self.debug_trace
    pc,             \* where the generator made by __call__ stands
    it,             \* what the iterator handed to __call__ has left
    chained,        \* the items chain([peek], it) yields before those of it
    workflow,       \* the local workflow of __call__
    item,           \* the loop variable of "for item in it"
    idx,            \* the position of the loop "for f in workflow"
    fail_callback,  \* the fail_callback argument ("None" when not given)
    exc,            \* the exception that ended the generator
    arg_short_circuit, \* the short_circuit argument of the constructor
    previous,       \* history: how the engine's previous generator ended
    earlier,        \* history: the sample and Plan of the previous generator
    input,          \* history: the stream handed to __call__
    pulled,         \* history: how many items were taken from the iterator
    started,        \* history: the items the loop has initialised
    resolved,       \* history: the calls made by _get_workflow
    calls,          \* history: the calls f() made by the per-item loop
    items,          \* history: the items the loop has finished
    output          \* history: what the generator has yielded

vars == <<declared, options, debug, short_circuit, state, failed, debug_trace,
          pc, it, chained, workflow, item, idx, fail_callback, exc,
          arg_short_circuit, previous, earlier, input, pulled, started,
          resolved, calls, items, output>>

\* what a generator of the engine leaves as it is
engine == <<declared, options, debug, arg_short_circuit, previous, earlier>>

(* Workflow.__init__ with _allocate_state setting self.state = 0 *)
Constructed(setup, sc, dbg) ==
    /\ declared \in Perms(setup.class)
    /\ options = setup.options
    /\ debug = dbg
    /\ short_circuit = sc
    /\ arg_short_circuit = sc
    /\ previous = "none"
    /\ earlier = <<>>
    /\ state = 0
    /\ failed = FALSE
    /\ debug_trace = <<>>
    /\ pc = "none"
    /\ it = <<>>
    /\ chained = <<>>
    /\ workflow = <<>>
    /\ item = 0
    /\ idx = 0
    /\ fail_callback = "None"
    /\ exc = "None"
    /\ input = <<>>
    /\ pulled = 0
    /\ started = <<>>
    /\ resolved = <<>>
    /\ calls = <<>>
    /\ items = <<>>
    /\ output = <<>>

Init ==
    \E setup \in Setups, sc \in BOOLEAN, dbg \in BOOLEAN :
        Constructed(setup, sc, dbg)

(***************************************************************************)
(* wf(it, fail_callback=fcb): __call__ is a generator function, so the     *)
(* call runs none of its body.                                             *)
(***************************************************************************)
CallWith(stream, fcb) ==
    /\ pc = "none"
    /\ pc' = "created"
    /\ it' = stream
    /\ input' = stream
    /\ fail_callback' = fcb
    /\ UNCHANGED <<engine, started, short_circuit, state, failed, debug_trace, chained,
                   workflow, item, idx, exc, pulled, resolved, calls, items,
                   output>>

Call == \E stream \in Streams, fcb \in {"None", "fail_callback"} :
            CallWith(stream, fcb)

(* the consumer asks the generator for its next value *)
ConsumerNext ==
    /\ pc \in {"created", "yielded"}
    /\ pc' = IF pc = "created" THEN "start" ELSE "loop"
    /\ UNCHANGED <<engine, started, short_circuit, state, failed, debug_trace, it,
                   chained, workflow, item, idx, fail_callback, exc, input,
                   pulled, resolved, calls, items, output>>

(* the consumer stops pulling: the generator is never resumed *)
ConsumerStop ==
    /\ pc \in {"created", "yielded"}
    /\ pc' = "closed"
    /\ UNCHANGED <<engine, started, short_circuit, state, failed, debug_trace, it,
                   chained, workflow, item, idx, fail_callback, exc, input,
                   pulled, resolved, calls, items, output>>

(***************************************************************************)
(* Workflow._get_workflow.  The list comprehension calls every method of   *)
(* _all_wf_methods() in turn on self, with self.short_circuit False.       *)
(***************************************************************************)
sample_call_short_circuiting(dbg, name, opts, st, fl) ==
    method_call(dbg, name, opts, st, fl, arg_short_circuit)
(* a call f() of the comprehension, made after self.short_circuit = False *)
sample_call(dbg, name, opts, st, fl) ==
    method_call(dbg, name, opts, st, fl, FALSE)

(* "if f() is _executed": the filter of the comprehension *)
kept_all(list, name, ret) == Append(list, name)
kept(list, name, ret) == IF ret = "_executed" THEN Append(list, name) ELSE list

RECURSIVE executed(_, _, _)
executed(methods, opts, acc) ==
    IF methods = <<>> \/ acc.raised THEN acc
    ELSE LET name == Head(methods)
             r == sample_call(acc.dbg, name, opts, acc.state, acc.failed)
             entry == [name |-> name, ret |-> r.ret, state |-> acc.state,
                       failed |-> acc.failed]
         IN  executed(Tail(methods), opts,
                 [state |-> r.state,
                  failed |-> r.failed,
                  debug_trace |-> wrapped(acc.dbg, acc.debug_trace, name),
                  dbg |-> acc.dbg,
                  raised |-> (r.ret = "TypeError"),
                  list |-> kept(acc.list, name, r.ret),
                  log |-> Append(acc.log, entry)])

(* generator_reset = chain([peek], it): the items it yields ahead of it *)
generator_reset_lost(peek) == <<>>
generator_reset(peek) == <<peek>>

(* it.next() on an exhausted iterator: StopIteration leaves _get_workflow *)
(* and __call__; raised inside a generator, it ends the generator.        *)
GetWorkflowEmpty ==
    /\ pc = "start"
    /\ it = <<>>
    /\ short_circuit' = FALSE
    /\ pc' = "done"
    /\ exc' = "StopIteration"
    /\ UNCHANGED <<engine, started, state, failed, debug_trace, it, chained, workflow,
                   item, idx, fail_callback, input, pulled, resolved, calls,
                   items, output>>

GetWorkflow ==
    /\ pc = "start"
    /\ it # <<>>
    /\ LET peek == Head(it)
           r == executed(all_wf_methods(declared), options,
                    [state |-> peek, failed |-> failed,
                     debug_trace |-> debug_trace, dbg |-> debug,
                     raised |-> FALSE, list |-> <<>>, log |-> <<>>])
       IN  /\ it' = Tail(it)
           /\ pulled' = pulled + 1
           /\ state' = r.state
           /\ failed' = r.failed
           /\ debug_trace' = r.debug_trace
           /\ resolved' = r.log
           /\ IF r.raised
              THEN /\ short_circuit' = FALSE
                   /\ pc' = "raised"
                   /\ exc' = "TypeError"
                   /\ UNCHANGED <<chained, workflow>>
              ELSE /\ short_circuit' = short_circuit
                   /\ pc' = "loop"
                   /\ exc' = exc
                   /\ chained' = generator_reset(peek)
                   /\ workflow' = IF debug
                                  THEN <<"_setup_debug_trace">> \o r.list
                                  ELSE r.list
    /\ UNCHANGED <<engine, started, item, idx, fail_callback, input, calls, items,
                   output>>

(***************************************************************************)
(* Workflow.__call__: the loop "for item in it" over chain([peek], it).    *)
(***************************************************************************)
(* self.failed = False at the top of the loop body *)
reset_failed_kept(fl) == fl
reset_failed(fl) == FALSE

NextItem ==
    /\ pc = "loop"
    /\ ~(chained = <<>> /\ it = <<>>)
    /\ item' = IF chained # <<>> THEN Head(chained) ELSE Head(it)
    /\ started' = Append(started, item')
    /\ failed' = reset_failed(failed)
    /\ state' = item'
    /\ IF chained # <<>>
       THEN /\ chained' = Tail(chained)
            /\ UNCHANGED <<it, pulled>>
       ELSE /\ it' = Tail(it)
            /\ pulled' = pulled + 1
            /\ UNCHANGED chained
    /\ idx' = 1
    /\ pc' = "steps"
    /\ UNCHANGED <<engine, short_circuit, debug_trace, workflow,
                   fail_callback, exc, input, resolved, calls, items, output>>

(* the iterator is exhausted: the generator returns *)
Exhausted ==
    /\ pc = "loop"
    /\ chained = <<>>
    /\ it = <<>>
    /\ pc' = "done"
    /\ exc' = "StopIteration"
    /\ UNCHANGED <<engine, started, short_circuit, state, failed, debug_trace, it,
                   chained, workflow, item, idx, fail_callback, input, pulled,
                   resolved, calls, items, output>>

(* one call f() of "for f in workflow: f()" *)
RunStep ==
    /\ pc = "steps"
    /\ idx <= Len(workflow)
    /\ LET name == workflow[idx]
       IN  IF name = "_setup_debug_trace"
           THEN /\ debug_trace' = <<>>
                /\ calls' = Append(calls,
                       [item |-> Len(items) + 1, name |-> name,
                        ret |-> "None", state |-> state, failed |-> failed,
                        short_circuit |-> short_circuit])
                /\ idx' = idx + 1
                /\ UNCHANGED <<state, failed, pc, exc>>
           ELSE LET r == method_call(debug, name, options, state, failed,
                                    short_circuit)
                IN  /\ debug_trace' = wrapped(debug, debug_trace, name)
                    /\ calls' = Append(calls,
                           [item |-> Len(items) + 1, name |-> name,
                            ret |-> r.ret, state |-> state,
                            failed |-> failed,
                            short_circuit |-> short_circuit])
                    /\ state' = r.state
                    /\ failed' = r.failed
                    /\ IF r.ret = "TypeError"
                       THEN /\ pc' = "raised"
                            /\ exc' = "TypeError"
                            /\ idx' = idx
                       ELSE /\ idx' = idx + 1
                            /\ UNCHANGED <<pc, exc>>
    /\ UNCHANGED <<engine, started, short_circuit, it, chained, workflow, item,
                   fail_callback, input, pulled, resolved, items, output>>

(* the callbacks: the default success_callback gives x.state *)
success_callback(st) == [callback |-> "success", value |-> st]
call_fail_callback(st) == [callback |-> "fail", value |-> st]

(* what the end of the loop body yields for an item: nothing, or a value *)
yielded_always(fl, fcb, st) == <<success_callback(st)>>
yielded(fl, fcb, st) ==
    IF fl
    THEN IF fcb # "None" THEN <<call_fail_callback(st)>> ELSE <<>>
    ELSE <<success_callback(st)>>

(* the end of the loop body: the item is yielded or dropped *)
EndItem ==
    /\ pc = "steps"
    /\ idx > Len(workflow)
    /\ items' = Append(items,
           [item |-> item, failed |-> failed, state |-> state])
    /\ output' = output \o yielded(failed, fail_callback, state)
    /\ pc' = IF yielded(failed, fail_callback, state) = <<>>
             THEN "loop" ELSE "yielded"
    /\ UNCHANGED <<engine, started, short_circuit, state, failed, debug_trace, it,
                   chained, workflow, item, idx, fail_callback, exc, input,
                   pulled, resolved, calls>>

Next ==
    \/ Call
    \/ ConsumerNext
    \/ ConsumerStop
    \/ GetWorkflowEmpty
    \/ GetWorkflow
    \/ NextItem
    \/ Exhausted
    \/ RunStep
    \/ EndItem

Spec == Init /\ [][Next]_vars

(***************************************************************************)
(* The example of the module docstring: MyWorkflow under its three option  *)
(* dicts, run on (i for i in range(10)) with the default callbacks.        *)
(***************************************************************************)
ExampleStream == [i \in 1..ExampleLen |-> i - 1]

InitExample ==
    \E o \in ExampleOptions, sc \in BOOLEAN, dbg \in BOOLEAN :
        Constructed([class |-> ExampleClass, options |-> o], sc, dbg)

CallExample == CallWith(ExampleStream, "None")

NextExample ==
    \/ CallExample
    \/ ConsumerNext
    \/ ConsumerStop
    \/ GetWorkflow
    \/ NextItem
    \/ Exhausted
    \/ RunStep
    \/ EndItem

SpecExample == InitExample /\ [][NextExample]_vars

(***************************************************************************)
(* One engine used for two streams: wf(it) is called again once the first  *)
(* generator has returned, has raised or has been abandoned.  Each call of *)
(* __call__ has its own locals; self.state, self.failed,                   *)
(* self.short_circuit and self.debug_trace are the instance's and stay.    *)
(***************************************************************************)
ReuseSetups == {s \in Setups : s.options = NoOptions}

InitReuse ==
    \E setup \in ReuseSetups, sc \in BOOLEAN, dbg \in BOOLEAN :
        /\ Constructed(setup, sc, dbg)
        /\ declared = dir(setup.class)

CallAgain ==
    \E stream \in Streams, fcb \in {"None", "fail_callback"} :
        /\ pc \in {"done", "closed", "raised"}
        /\ previous = "none"
        /\ previous' = pc
        /\ earlier' = IF pulled > 0 /\ (pc = "raised" => started # <<>>)
                      THEN <<[sample |-> input[1], workflow |-> workflow]>>
                      ELSE <<>>
        /\ pc' = "created"
        /\ it' = stream
        /\ input' = stream
        /\ fail_callback' = fcb
        /\ chained' = <<>>
        /\ workflow' = <<>>
        /\ item' = 0
        /\ idx' = 0
        /\ exc' = "None"
        /\ pulled' = 0
        /\ started' = <<>>
        /\ resolved' = <<>>
        /\ calls' = <<>>
        /\ items' = <<>>
        /\ output' = <<>>
        /\ UNCHANGED <<declared, options, debug, arg_short_circuit,
                       short_circuit, state, failed, debug_trace>>

NextReuse ==
    \/ Call
    \/ CallAgain
    \/ ConsumerNext
    \/ ConsumerStop
    \/ GetWorkflowEmpty
    \/ GetWorkflow
    \/ NextItem
    \/ Exhausted
    \/ RunStep
    \/ EndItem

SpecReuse == InitReuse /\ [][NextReuse]_vars

(***************************************************************************)
(* Streams one item longer, for the classes whose steps carry a data       *)
(* condition: a step can pass on the sample, be skipped for the next item  *)
(* and pass again on the one after.                                        *)
(***************************************************************************)
LongStreams == UNION {[1..n -> Items] : n \in 0..(MaxLen + 1)}

DataSetups ==
    {s \in Setups : \E n \in s.class : Methods[n].valid_data # "None"}

InitLong ==
    \E setup \in DataSetups, sc \in BOOLEAN, dbg \in BOOLEAN :
        /\ Constructed(setup, sc, dbg)
        /\ declared = dir(setup.class)

CallLong ==
    \E stream \in LongStreams, fcb \in {"None", "fail_callback"} :
        CallWith(stream, fcb)

NextLong ==
    \/ CallLong
    \/ ConsumerNext
    \/ ConsumerStop
    \/ GetWorkflowEmpty
    \/ GetWorkflow
    \/ NextItem
    \/ Exhausted
    \/ RunStep
    \/ EndItem

SpecLong == InitLong /\ [][NextLong]_vars

(***************************************************************************)
(* Vocabulary of the properties.                                           *)
(***************************************************************************)
IsPrefix(a, b) == Len(a) <= Len(b) /\ SubSeq(b, 1, Len(a)) = a
Pos(seq, x) == CHOOSE i \in DOMAIN seq : seq[i] = x
Names(log) == [i \in DOMAIN log |-> log[i].name]
(* the steps of the resolved Plan: the local workflow without the trace reset *)
Plan == SelectSeq(workflow, LAMBDA n : n # "_setup_debug_trace")
(* the calls the loop made for the k-th item *)
CallsOf(k) == SelectSeq(calls, LAMBDA c : c.item = k)
IsStep(c) == c.name # "_setup_debug_trace"
Ran(c) == c.ret = "_executed"
(* _get_workflow has returned the Plan *)
PlanResolved == pc \in {"loop", "steps", "yielded", "done", "closed"}
                    /\ resolved # <<>>

(***************************************************************************)
(* C1. Docstring example: MyWorkflow on the stream 0..9 yields, in input   *)
(* order, ((i*i)*2)-5 under {double, sub_value=5}, (i*i)-10 under          *)
(* {sub_value=10} and i*i under no options.                                *)
(***************************************************************************)
ExampleExpected(opts, i) ==
    IF DOMAIN opts = {"double", "sub_value"} THEN ((i * i) * 2) - 5
    ELSE IF DOMAIN opts = {"sub_value"} THEN (i * i) - 10
    ELSE i * i

C1_DocstringExample ==
    /\ \A k \in DOMAIN output :
          /\ output[k].callback = "success"
          /\ output[k].value = ExampleExpected(options, k - 1)
    /\ pc = "done" => Len(output) = ExampleLen

C1_Witness ==
    /\ pc = "done"
    /\ DOMAIN options = {"double", "sub_value"}
    /\ Len(output) = ExampleLen
    /\ output[ExampleLen].value = 157

DataPasses(name, st) ==
    Methods[name].valid_data = "None" \/ valid_data(Methods[name].valid_data, st)

Matches(v, values) ==
    IF values.t = "anything" THEN TRUE
    ELSE IF values.t = "not_none" THEN v # NoneV
    ELSE IF values.t = "str" THEN v = StrV(values.s)
    ELSE v \in values.elems

OptionPasses(name) ==
    \/ Methods[name].option = "None"
    \/ /\ Methods[name].option \in DOMAIN options
       /\ Matches(options[Methods[name].option], Methods[name].values)

HonoursFailure(name) ==
    Methods[name].deco = "requires" /\ Methods[name].valid_state
IgnoresFailure(name) ==
    Methods[name].deco = "requires" /\ ~Methods[name].valid_state
Unconditional(name) == Methods[name].deco = "no_requirements"

(***************************************************************************)
(* C3. For every item the step bodies that execute do so in non-increasing *)
(* priority order (no priority counting as 0), and every item is taken     *)
(* through the steps of the Plan once each, in Plan order.                 *)
(***************************************************************************)
C3_PriorityOrder ==
    /\ \A i, j \in DOMAIN calls :
          (/\ i < j
           /\ calls[i].item = calls[j].item
           /\ IsStep(calls[i]) /\ Ran(calls[i])
           /\ IsStep(calls[j]) /\ Ran(calls[j]))
              => key(calls[i].name) >= key(calls[j].name)
    /\ \A k \in 1..Len(items) :
          Names(SelectSeq(CallsOf(k), IsStep)) = Plan
    /\ IsPrefix(Names(SelectSeq(CallsOf(Len(items) + 1), IsStep)), Plan)

C3_Witness ==
    /\ Len(items) >= 2
    /\ \E i, j \in DOMAIN calls :
          /\ i < j
          /\ calls[i].item = 2 /\ calls[j].item = 2
          /\ IsStep(calls[i]) /\ Ran(calls[i])
          /\ IsStep(calls[j]) /\ Ran(calls[j])
          /\ key(calls[i].name) > key(calls[j].name)

(***************************************************************************)
(* C4. The Plan holds exactly the steps that executed when called, in      *)
(* priority order, on the sample item with short-circuiting disabled: a    *)
(* failure-honouring step called after the sample was marked failed is     *)
(* included when its data and option conditions pass, and a step skipped   *)
(* for the sample runs its body for no item.                               *)
(***************************************************************************)
C4_PlanInclusion ==
    PlanResolved =>
        /\ Range(Names(resolved)) = Range(declared)
        /\ Len(resolved) = Len(declared)
        /\ \A i, j \in DOMAIN resolved :
              i < j => key(resolved[i].name) >= key(resolved[j].name)
        /\ resolved[1].state = input[1]
        /\ Plan = Names(SelectSeq(resolved, Ran))
        /\ \A i \in DOMAIN resolved :
              (/\ HonoursFailure(resolved[i].name)
               /\ resolved[i].failed
               /\ DataPasses(resolved[i].name, resolved[i].state)
               /\ OptionPasses(resolved[i].name))
                  => resolved[i].name \in Range(Plan)
        /\ \A i \in DOMAIN calls :
              (IsStep(calls[i]) /\ Ran(calls[i]))
                  => \E j \in DOMAIN resolved :
                        resolved[j].name = calls[i].name /\ Ran(resolved[j])

C4_Witness ==
    /\ PlanResolved
    /\ arg_short_circuit
    /\ pc = "done"
    /\ \E i \in DOMAIN resolved :
          /\ HonoursFailure(resolved[i].name)
          /\ resolved[i].failed
          /\ resolved[i].name \in Range(Plan)
    /\ Len(input) >= 2
    /\ ~Ran(resolved[1])
    /\ DataPasses(resolved[1].name, input[2])

(***************************************************************************)
(* C5. A step whose option key is absent from the options is in no Plan    *)
(* and its body runs neither for the sample nor for any item.              *)
(***************************************************************************)
OptionAbsent(name) ==
    Methods[name].option # "None" /\ Methods[name].option \notin DOMAIN options

C5_AbsentOption ==
    \A name \in Range(declared) :
        OptionAbsent(name) =>
            /\ name \notin Range(workflow)
            /\ \A i \in DOMAIN resolved :
                  resolved[i].name = name => ~Ran(resolved[i])
            /\ \A i \in DOMAIN calls : calls[i].name # name

C5_Witness ==
    /\ pc = "done"
    /\ Len(items) = MaxLen
    /\ \E name \in Range(declared) :
          OptionAbsent(name) /\ Methods[name].values.t = "anything"
    /\ \E name \in Range(declared) :
          OptionAbsent(name) /\ Methods[name].values.t = "set"

(***************************************************************************)
(* C6. With short-circuiting enabled a failure-honouring step called while *)
(* failed is true does not run its body; called while failed is false      *)
(* (a later item, or after a body cleared the flag) it runs when its       *)
(* conditions pass; and every item starts with failed false.               *)
(***************************************************************************)
C6_ShortCircuit ==
    \A i \in DOMAIN calls :
        /\ (IsStep(calls[i]) /\ HonoursFailure(calls[i].name)
                /\ calls[i].short_circuit)
              => /\ calls[i].failed => ~Ran(calls[i])
                 /\ (/\ ~calls[i].failed
                     /\ DataPasses(calls[i].name, calls[i].state)
                     /\ OptionPasses(calls[i].name)) => Ran(calls[i])
        /\ (i = 1 \/ calls[i - 1].item # calls[i].item) => ~calls[i].failed

C6_Witness ==
    \E i, j, k \in DOMAIN calls :
        /\ i < j /\ j < k
        /\ calls[i].item = calls[k].item
        /\ calls[i].short_circuit
        /\ IsStep(calls[i]) /\ IsStep(calls[j]) /\ IsStep(calls[k])
        /\ HonoursFailure(calls[i].name) /\ calls[i].failed /\ ~Ran(calls[i])
        /\ calls[j].failed /\ Methods[calls[j].name].body = "clear"
        /\ HonoursFailure(calls[k].name) /\ Ran(calls[k])

(***************************************************************************)
(* C7. An unconditional step of the Plan runs its body on every item       *)
(* whatever failed is, and a step with valid_state=False runs its body     *)
(* while failed is true whenever its data and option conditions pass.      *)
(***************************************************************************)
C7_IgnoreFailure ==
    /\ \A i \in DOMAIN calls :
          IsStep(calls[i]) =>
             /\ Unconditional(calls[i].name) => Ran(calls[i])
             /\ (/\ IgnoresFailure(calls[i].name)
                 /\ calls[i].failed
                 /\ DataPasses(calls[i].name, calls[i].state)
                 /\ OptionPasses(calls[i].name)) => Ran(calls[i])
    /\ \A k \in 1..Len(items) :
          \A n \in Range(Plan) :
              Unconditional(n) =>
                  \E i \in DOMAIN calls :
                      /\ calls[i].item = k
                      /\ calls[i].name = n
                      /\ Ran(calls[i])

C7_Witness ==
    /\ short_circuit
    /\ \E i \in DOMAIN calls :
          /\ IsStep(calls[i]) /\ Unconditional(calls[i].name)
          /\ calls[i].failed /\ Ran(calls[i])
    /\ \E i \in DOMAIN calls :
          /\ IsStep(calls[i]) /\ IgnoresFailure(calls[i].name)
          /\ calls[i].failed /\ Ran(calls[i])

(***************************************************************************)
(* C8. The output is, in input order, one value per finished item: the     *)
(* success callback's for an item whose failed flag is false after the     *)
(* last step, the failure callback's for a failed item when one is given,  *)
(* and nothing for a failed item otherwise.                                *)
(***************************************************************************)
RECURSIVE Results(_, _)
Results(log, fcb) ==
    IF log = <<>> THEN <<>>
    ELSE LET e == Head(log)
             r == IF ~e.failed
                  THEN <<[callback |-> "success", value |-> e.state]>>
                  ELSE IF fcb # "None"
                       THEN <<[callback |-> "fail", value |-> e.state]>>
                       ELSE <<>>
         IN  r \o Results(Tail(log), fcb)

C8_Output ==
    /\ output = Results(items, fail_callback)
    /\ \A k \in DOMAIN items : items[k].item = input[k]
    /\ fail_callback = "None" =>
          Len(output) = Cardinality({k \in DOMAIN items : ~items[k].failed})
    /\ fail_callback # "None" => Len(output) = Len(items)
    /\ pc = "done" => Len(items) = Len(input)

C8_Witness ==
    /\ pc = "done"
    /\ fail_callback = "None"
    /\ Len(items) = 2
    /\ items[1].failed
    /\ ~items[2].failed
    /\ Len(output) = 1

(***************************************************************************)
(* C9. _get_workflow takes exactly one item from the iterator, and the     *)
(* loop then initialises and runs through the Plan every item of the       *)
(* stream once, the sample first, in the order of the stream.              *)
(***************************************************************************)
C9_PeekRestored ==
    /\ (pc = "loop" /\ started = <<>>) => pulled = 1
    /\ IsPrefix(started, input)
    /\ Len(items) <= Len(started)
    /\ Len(started) <= Len(items) + 1
    /\ \A k \in DOMAIN items : items[k].item = started[k]
    /\ \A k \in DOMAIN items : Names(CallsOf(k)) = workflow
    /\ pc = "done" => (started = input /\ Len(items) = Len(input))

C9_Witness ==
    /\ pc = "done"
    /\ Len(input) = MaxLen
    /\ input[1] # input[2]
    /\ started = input

(***************************************************************************)
(* C10. As claimed: a run on an empty stream ends with an error raised to  *)
(* the caller, unlike a run that ends normally with every item dropped.    *)
(***************************************************************************)
C10_EmptyStreamError ==
    (pc \in {"done", "raised"} /\ input = <<>>)
        => (pc = "raised" /\ exc \notin {"None", "StopIteration"})

(***************************************************************************)
(* C11. Resolving the Plan a second time on the same engine, from the same *)
(* sample item and with the same options, gives the same ordered list of   *)
(* steps as the first time, whatever the first generator left behind: it   *)
(* completed, its last item failed, or it was abandoned part-way.          *)
(***************************************************************************)
C11_SameCatalogueSamePlan ==
    \A e \in Range(earlier) :
        (PlanResolved /\ input[1] = e.sample) => workflow = e.workflow

(* a second resolution from the same sample, entered with self.failed left *)
(* True by the last item of a generator that ran to its end                *)
C11_Witness ==
    /\ PlanResolved
    /\ earlier # <<>>
    /\ earlier[1].sample = input[1]
    /\ previous = "done"
    /\ resolved # <<>>
    /\ resolved[1].failed
    /\ arg_short_circuit
    /\ \E i \in DOMAIN resolved :
           HonoursFailure(resolved[i].name) /\ Ran(resolved[i])

(***************************************************************************)
(* The same engine built with debug = False, computed from the operators   *)
(* of the model: its Plan for a sample, and what it does with one item.    *)
(***************************************************************************)
UntracedResolution(sample) ==
    executed(all_wf_methods(declared), options,
        [state |-> sample, failed |-> FALSE, debug_trace |-> <<>>,
         dbg |-> FALSE, raised |-> FALSE, list |-> <<>>, log |-> <<>>])

RECURSIVE UntracedItem(_, _)
UntracedItem(plan, acc) ==
    IF plan = <<>> THEN acc
    ELSE LET r == method_call(FALSE, Head(plan), options, acc.state,
                              acc.failed, arg_short_circuit)
         IN  UntracedItem(Tail(plan),
                 [item |-> acc.item, state |-> r.state, failed |-> r.failed,
                  ran |-> IF r.ret = "_executed"
                          THEN Append(acc.ran, Head(plan)) ELSE acc.ran])

Untraced(x) ==
    UntracedItem(UntracedResolution(input[1]).list,
        [item |-> x, state |-> x, failed |-> FALSE, ran |-> <<>>])

ResolutionEnded == pc \in {"loop", "steps", "yielded", "done", "closed", "raised"}

C13_ShortCircuitRestored ==
    (pulled > 0 \/ exc = "StopIteration") /\ ResolutionEnded =>
        short_circuit = arg_short_circuit

(***************************************************************************)
(* C14. Evaluating the requirement of a step declared with                 *)
(* values=not_none never raises: it decides Execute when the option is     *)
(* present with a value other than None, and Skip otherwise, a present     *)
(* option whose value is None included.                                    *)
(***************************************************************************)
C14_NotNoneNeverRaises ==
    \A i \in DOMAIN resolved :
        LET m == Methods[resolved[i].name]
        IN  m.values.t = "not_none" =>
                /\ resolved[i].ret \in {"_executed", "None"}
                /\ Ran(resolved[i]) <=>
                       /\ m.option \in DOMAIN options
                       /\ options[m.option] # NoneV

(***************************************************************************)
(* C15. A step declared with a single string as its allowed value executes *)
(* when the option's value is exactly that string; any other string, a     *)
(* proper substring of it included, decides Skip.                          *)
(***************************************************************************)
C15_StringExactMatch ==
    \A i \in DOMAIN resolved :
        LET m == Methods[resolved[i].name]
        IN  (/\ m.values.t = "str"
             /\ m.option \in DOMAIN options
             /\ options[m.option].t = "str") =>
                IF options[m.option] = StrV(m.values.s)
                THEN Ran(resolved[i])
                ELSE resolved[i].ret = "None"

(***************************************************************************)
(* C16 as stated: a step whose data condition is false for the sample item *)
(* is retained and checked again on every item, so that its body runs for  *)
(* each later item on which its conditions pass.  The step read here is    *)
(* the first of _all_wf_methods(), which meets every item as the stream    *)
(* gave it and with self.failed False.                                     *)
(***************************************************************************)
C16_RetainedAfterSampleSkip ==
    \A k \in DOMAIN items :
        LET name == Head(all_wf_methods(declared))
        IN  (/\ ~DataPasses(name, input[1])
             /\ DataPasses(name, items[k].item)
             /\ OptionPasses(name)) =>
                \E i \in DOMAIN calls :
                    /\ calls[i].item = k
                    /\ calls[i].name = name
                    /\ Ran(calls[i])

(***************************************************************************)
(* C16. A step whose data condition is false when plan resolution calls it *)
(* on the sample item is left out of the Plan: the loop calls it for no    *)
(* item of the stream, the items on which its data condition would pass    *)
(* included.                                                               *)
(***************************************************************************)
C16_PrunedAfterSampleSkip ==
    \A i \in DOMAIN resolved :
        LET name == resolved[i].name
        IN  (/\ Methods[name].valid_data # "None"
             /\ ~valid_data(Methods[name].valid_data, resolved[i].state)
             /\ PlanResolved) =>
                /\ name \notin Range(workflow)
                /\ \A j \in DOMAIN calls : calls[j].name # name

(* the data condition of the first step is false for the sample and true   *)
(* for the second item, which has been processed without a call of it      *)
C16_Witness ==
    /\ PlanResolved
    /\ Len(items) >= 2
    /\ LET name == Head(all_wf_methods(declared))
       IN  /\ Methods[name].valid_data # "None"
           /\ ~DataPasses(name, input[1])
           /\ DataPasses(name, items[2].item)
           /\ \A j \in DOMAIN calls : calls[j].name # name

(***************************************************************************)
(* C17. A step of the Plan is gated again on every item.  When its data    *)
(* condition is false for an item its body does not run for that item and  *)
(* the call changes nothing; the item is still taken through the whole     *)
(* Plan and is yielded or dropped by its failed flag; the Plan stays as it *)
(* was resolved; and the body runs on every item for which the data        *)
(* condition holds, the option passes and the step is not short-circuited. *)
(***************************************************************************)
StateAfter(i) ==
    IF i < Len(calls) /\ calls[i + 1].item = calls[i].item
    THEN [known |-> TRUE, state |-> calls[i + 1].state,
          failed |-> calls[i + 1].failed]
    ELSE IF calls[i].item \in DOMAIN items
    THEN [known |-> TRUE, state |-> items[calls[i].item].state,
          failed |-> items[calls[i].item].failed]
    ELSE [known |-> FALSE, state |-> 0, failed |-> FALSE]

C17_RegatedEveryItem ==
    /\ \A i \in DOMAIN calls :
           LET c == calls[i]
           IN  IsStep(c) =>
                   /\ c.name \in Range(Plan)
                   /\ ~DataPasses(c.name, c.state) =>
                          /\ ~Ran(c)
                          /\ StateAfter(i).known =>
                                 /\ StateAfter(i).state = c.state
                                 /\ StateAfter(i).failed = c.failed
                   /\ (/\ DataPasses(c.name, c.state)
                       /\ OptionPasses(c.name)
                       /\ ~(HonoursFailure(c.name) /\ c.failed
                                /\ c.short_circuit)) => Ran(c)
    /\ \A k \in DOMAIN items :
           Names(SelectSeq(CallsOf(k), IsStep)) = Plan
    /\ output = Results(items, fail_callback)

(* a step of the Plan ran for the sample, was skipped on its data          *)
(* condition for the second item, which was yielded all the same, and ran  *)
(* again for the third                                                     *)
C17_Witness ==
    /\ Len(items) >= 3
    /\ Len(output) >= 2
    /\ ~items[2].failed
    /\ \E name \in Range(Plan) :
           /\ Methods[name].valid_data # "None"
           /\ \A k \in 1..3 :
                  \E i \in DOMAIN calls :
                      /\ calls[i].item = k
                      /\ calls[i].name = name
                      /\ Ran(calls[i]) <=> k # 2
                      /\ DataPasses(name, calls[i].state) <=> k # 2

(* the generator is between two items, or has ended after one *)
ItemProcessed ==
    items # <<>> /\ pc \in {"loop", "yielded", "done", "closed"}

(***************************************************************************)
(* C18 as stated: with debug on, self.debug_trace after an item holds, in  *)
(* the order of their calls, the names of exactly those steps of the Plan  *)
(* whose requirement decided Execute for that item; a step that decided    *)
(* Skip leaves no entry.                                                   *)
(***************************************************************************)
C18_TraceOfExecuted ==
    (debug /\ ItemProcessed) =>
        debug_trace =
            Names(SelectSeq(CallsOf(Len(items)),
                            LAMBDA c : IsStep(c) /\ Ran(c)))

(***************************************************************************)
(* C18. With debug on, self.debug_trace after an item holds, in the order  *)
(* of their calls, the names of all the steps of the Plan the loop called  *)
(* for that item, whether the requirement decided Execute or Skip, and no  *)
(* entry of plan resolution or of an earlier item.                         *)
(***************************************************************************)
C18_TraceOfCalled ==
    (debug /\ ItemProcessed) =>
        /\ debug_trace = Names(SelectSeq(CallsOf(Len(items)), IsStep))
        /\ debug_trace = Plan

(* a traced second item has been processed and one of its steps was        *)
(* skipped, after a resolution that traced calls of its own                *)
C18_Witness ==
    /\ debug
    /\ ItemProcessed
    /\ Len(items) >= 2
    /\ resolved # <<>>
    /\ \E i, j \in DOMAIN calls :
           /\ calls[i].item = Len(items) /\ IsStep(calls[i]) /\ ~Ran(calls[i])
           /\ calls[j].item = Len(items) /\ IsStep(calls[j]) /\ Ran(calls[j])

(***************************************************************************)
(* C19. When the loop calls the first step of the Plan for an item,        *)
(* self.failed is False: for the first item though a body set it during    *)
(* plan resolution, and for an item that follows a failed one.  So what    *)
(* becomes of an item does not depend on the items around it.              *)
(***************************************************************************)
FirstStepCall(i) ==
    /\ IsStep(calls[i])
    /\ \A j \in 1..(i - 1) :
           calls[j].item = calls[i].item => ~IsStep(calls[j])

C19_FailedResetPerItem ==
    /\ \A i \in DOMAIN calls : FirstStepCall(i) => ~calls[i].failed
    /\ \A k, l \in DOMAIN items :
           items[k].item = items[l].item =>
               /\ items[k].failed = items[l].failed
               /\ items[k].state = items[l].state

(* a body set self.failed while the Plan was resolved on the sample and no *)
(* body cleared it, the first item failed in the loop, and the first step  *)
(* of the Plan has been called for the second item                         *)
C19_Witness ==
    /\ \E i \in DOMAIN resolved : resolved[i].failed
    /\ \A i \in DOMAIN resolved : Methods[resolved[i].name].body # "clear"
    /\ Len(items) >= 1
    /\ items[1].failed
    /\ \E i, j \in DOMAIN calls :
           /\ FirstStepCall(i) /\ calls[i].item = 1
           /\ FirstStepCall(j) /\ calls[j].item = 2

(***************************************************************************)
(* C20. The engine never reads ahead of the consumer by more than one      *)
(* item.  Nothing is taken from the input before the consumer's first      *)
(* pull; the items taken are at most one more than the items whose         *)
(* processing has started; while the generator waits at a yield every item *)
(* taken has been processed; and once the consumer has stopped pulling the *)
(* rest of the input is left unread.                                       *)
(***************************************************************************)
C20_ReadsAheadAtMostOne ==
    /\ Len(it) = Len(input) - pulled
    /\ pc \in {"none", "created"} => pulled = 0
    /\ Len(started) <= pulled
    /\ pulled <= Len(started) + 1
    /\ IsPrefix(started, input)
    /\ pc = "yielded" => pulled = Len(items)
    /\ pc = "closed" => pulled = Len(items)

(* the consumer stopped after the first value, with input left unread *)
C20_Witness ==
    /\ pc = "closed"
    /\ Len(output) = 1
    /\ pulled = 1
    /\ Len(input) > pulled
    /\ it # <<>>

=============================================================================
